---------------------------- MODULE Spec2Model ----------------------------
(***************************************************************************)
(* A model of functions.py: the path splitter _get_completion_parts, the   *)
(* scope resolver _prepare_goto and the three public operations complete,  *)
(* goto and get_definitions, together with the process-wide evaluator      *)
(* state (evaluate.statement_path and the memoize caches) they share.      *)
(*                                                                         *)
(* Text is a sequence of one-character strings.  Parser, evaluator and     *)
(* import resolver are collaborators: their answers are inputs of a call.  *)
(***************************************************************************)
EXTENDS Naturals, Integers, Sequences, FiniteSets, Bags, TLC

VARIABLES
    statement_path,  \* evaluate.statement_path, process-wide
    memo,            \* evaluate's memoize caches, process-wide
    op,              \* the operation that ran last
    arg,             \* the path text the last operation worked on
    module,          \* the cursor's statement and the collaborators' answers
    parts,           \* what _get_completion_parts returned for it
    resolver,        \* how _prepare_goto ended in the last call
    pool,            \* complete: the candidate names before the prefix filter
    outcome,         \* how the last call left: "returned" or the exception raised
    result,          \* the bag of adapters the last call returned
    cleared,         \* evaluate.clear_caches ran after the last evaluator use
    fresh            \* outcome and result of the same call on a fresh process

vars == <<statement_path, memo, op, arg, module, parts, resolver, pool, outcome,
          result, cleared, fresh>>

-----------------------------------------------------------------------------
\* Bounds

\* longest text handed to the splitter in SpecParts
MaxLen == 4

\* nested remove_unreal_imports calls before the interpreter gives up
RecursionLimit == 5

\* longest evaluate.statement_path the model lets accumulate
MaxPath == 4

-----------------------------------------------------------------------------
\* Text

WordChars == {"a", "A", "b"}

Alphabet == WordChars \cup {".", "\n", "("}

Strings(n) == UNION {[1..k -> Alphabet] : k \in 0..n}

\* str.lower on one character
LowerChar(c) == IF c = "A" THEN "a" ELSE c

\* str.lower
Lower(s) == [i \in DOMAIN s |-> LowerChar(s[i])]

\* str.startswith
StartsWith(s, prefix) ==
    /\ Len(prefix) <= Len(s)
    /\ SubSeq(s, 1, Len(prefix)) = prefix

\* len(goto_path.split('\n')) > 1
IsMultiLine(s) == \E i \in DOMAIN s : s[i] = "\n"

-----------------------------------------------------------------------------
\* _get_completion_parts matches the text against a lazy leading group, an
\* optional dot and a trailing run of word characters, with the S flag.

\* `$` without re.M: at the end of the text, or just before a final newline
AtDollar(path, k) ==
    \/ k = Len(path)
    \/ k = Len(path) - 1 /\ path[Len(path)] = "\n"

\* the ends k of group 3 when it starts at s: a run of \w followed by `$`
TailEnds(path, s) ==
    {k \in (s - 1)..Len(path) :
        /\ \A x \in s..k : path[x] \in WordChars
        /\ AtDollar(path, k)}

\* groups 2 and 3 with group 1 = path[1..i]: "." is tried before the empty
\* alternative, group 3 is greedy
GroupsAt(path, i) ==
    IF i < Len(path) /\ path[i + 1] = "." /\ TailEnds(path, i + 2) # {}
    THEN LET k == CHOOSE k \in TailEnds(path, i + 2) :
                      \A j \in TailEnds(path, i + 2) : j <= k
         IN  <<SubSeq(path, 1, i), <<".">>, SubSeq(path, i + 2, k)>>
    ELSE LET k == CHOOSE k \in TailEnds(path, i + 1) :
                      \A j \in TailEnds(path, i + 1) : j <= k
         IN  <<SubSeq(path, 1, i), <<>>, SubSeq(path, i + 1, k)>>

MatchesAt(path, i) ==
    \/ i < Len(path) /\ path[i + 1] = "." /\ TailEnds(path, i + 2) # {}
    \/ TailEnds(path, i + 1) # {}

\* group 1 is lazy: the shortest prefix after which the rest matches
_get_completion_parts(path) ==
    LET i == CHOOSE i \in 0..Len(path) :
                 MatchesAt(path, i) /\ \A j \in 0..(i - 1) : ~MatchesAt(path, j)
    IN  GroupsAt(path, i)


-----------------------------------------------------------------------------
\* The syntax tree the collaborators present: entities (scopes, statements,
\* imports), the names they define and what following an import yields.

\* type(entity)
Kind(e) ==
    CASE e \in {"m_use", "m_cyc", "m_pkg", "m_star"} -> "Module"
      [] e \in {"vi_a1", "vi_a2", "vi_s1", "vi_s2", "vi_s3", "vi_c",
                "i_s2", "i_s3", "i_c", "i_ok", "i_none"} -> "Import"
      [] e \in {"ip_ok", "ip_none", "ipl_ok", "ipl_none"} -> "ImportPath"
      [] e = "f_fn" -> "Function"
      [] e = "c_cls" -> "Class"
      [] OTHER -> "Statement"

\* entity.start_pos[0]: the imports standing for one line of a multi-line
\* import have no position
StartLine(e) ==
    CASE e \in {"vi_a1", "vi_a2", "vi_s1", "vi_s2", "vi_s3", "vi_c"} -> 0
      [] e \in {"i_s2", "i_s3", "i_c"} -> 2
      [] OTHER -> 1

\* a parsing.Name of the syntax tree: its identity, its dotted segments and
\* its parent; call is empty for a name the tree holds
Name(id, segment, parent) ==
    [id |-> id, names |-> <<segment>>, parent |-> parent, call |-> <<>>]

\* name.names[-1]
LastSegment(n) == n.names[Len(n.names)]

n_ab == Name("n_ab", <<"a", "b">>, "s_ab")
n_Ab == Name("n_Ab", <<"A", "b">>, "c_cls")
n_b  == Name("n_b", <<"b">>, "f_fn")
n_a  == Name("n_a", <<"a">>, "s_a")
v_a1 == Name("v_a1", <<"a">>, "vi_a1")
v_a2 == Name("v_a2", <<"a">>, "vi_a2")
v_s1 == Name("v_s1", <<"A">>, "vi_s1")
v_s2 == Name("v_s2", <<"A">>, "vi_s2")
v_s3 == Name("v_s3", <<"A">>, "vi_s3")
v_c  == Name("v_c", <<"b">>, "vi_c")
p_a  == Name("p_a", <<"a">>, "i_ok")
p_b  == Name("p_b", <<"b">>, "i_ok")

\* scope.get_defined_names()
get_defined_names(e) ==
    CASE e = "m_use" -> <<n_ab, n_Ab, n_b, v_a1, v_a2, v_s1>>
      [] e = "m_cyc" -> <<n_a, v_c>>
      [] e = "c_cls" -> <<n_ab, n_a>>
      [] e = "f_fn" -> <<n_b>>
      [] e = "i_s2" -> <<v_s2>>
      [] e = "i_s3" -> <<v_s3>>
      [] e = "i_c" -> <<v_c>>
      [] e \in {"ip_ok", "ipl_ok"} -> <<p_a, p_b>>
      [] OTHER -> <<>>

\* module.get_module_name(names): a name of the module for these segments.
\* Whether two calls give names that set() takes for one (the same object,
\* or objects equal under the name's own comparison) or names it keeps
\* apart is the collaborator's answer name_per_call; a name kept apart
\* carries the call that built it.
get_module_name(m, names, name_per_call, call) ==
    [id |-> "module_name", names |-> names, parent |-> m,
     call |-> IF name_per_call THEN call ELSE <<>>]

\* imports.ImportPath(stmt, is_like_search) for the statement under the cursor
ImportPath(stmt, is_like_search) ==
    CASE stmt = "i_ok" -> IF is_like_search THEN "ipl_ok" ELSE "ip_ok"
      [] OTHER -> IF is_like_search THEN "ipl_none" ELSE "ip_none"

\* ImportPath.follow(): a multi-line import's line resolves to its package
\* first and the star-imported modules after it, or to further imports
follow(e) ==
    CASE e \in {"vi_a1", "vi_a2"} -> <<"m_pkg", "m_star">>
      [] e = "vi_s1" -> <<"i_s2">>
      [] e = "vi_s2" -> <<"i_s3">>
      [] e = "vi_s3" -> <<"m_star", "m_pkg">>
      [] e = "vi_c" -> <<"i_c">>
      [] e \in {"ip_ok", "ipl_ok"} -> <<"m_pkg">>
      [] OTHER -> <<>>


-----------------------------------------------------------------------------
\* The evaluator's process-wide state during a call

\* the state of a fresh process, and the one evaluate.clear_caches() leaves
FreshEvaluator == [statement_path |-> <<>>, memo |-> {}, cleared |-> FALSE]

\* evaluate.follow_statement(stmt): records the statement and the statements
\* it follows in statement_path, memoizes, and returns the collaborator's
\* answer
follow_statement(ev, stmt, ctx) ==
    [scopes |-> ctx.scopes,
     ev |-> [statement_path |-> ev.statement_path \o <<stmt>> \o ctx.hops,
             memo |-> ev.memo \cup {stmt},
             cleared |-> FALSE]]

\* evaluate.get_names_for_scope(scope), consumed to the end
get_names_for_scope(ev, ctx) ==
    [name_lists |-> ctx.scope_names,
     ev |-> [ev EXCEPT !.memo = @ \cup {"user_scope"}, !.cleared = FALSE]]

\* _clear_caches() -> evaluate.clear_caches()
_clear_caches(ev) == [statement_path |-> <<>>, memo |-> {}, cleared |-> TRUE]

-----------------------------------------------------------------------------
\* _prepare_goto

\* mod: the parser's view at the cursor (user_stmt) and the collaborators'
\* answers for this request
_prepare_goto(ev, mod, goto_path, is_like_search) ==
    IF mod.user_stmt = "None" /\ IsMultiLine(goto_path)
    THEN [raised |-> "", how |-> "empty", scopes |-> <<>>, ev |-> ev]
    ELSE IF Kind(mod.user_stmt) = "Import"
    THEN [raised |-> "", how |-> "import",
          scopes |-> <<ImportPath(mod.user_stmt, is_like_search)>>, ev |-> ev]
    ELSE IF mod.statements = <<>>
    THEN [raised |-> "NotFoundError", how |-> "NotFound", scopes |-> <<>>, ev |-> ev]
    ELSE LET f == follow_statement(ev, mod.statements[1], mod)
         IN  [raised |-> "", how |-> "followed", scopes |-> f.scopes, ev |-> f.ev]

-----------------------------------------------------------------------------
\* Result lists

Range(s) == {s[i] : i \in DOMAIN s}

\* a list whose order is the iteration order of a set: the bag of its items
SeqToBag(s) == [x \in Range(s) |-> Cardinality({i \in DOMAIN s : s[i] = x})]

\* the concatenation of a list of lists
RECURSIVE Concat(_)
Concat(lists) ==
    IF lists = <<>> THEN <<>> ELSE Head(lists) \o Concat(Tail(lists))

-----------------------------------------------------------------------------
\* Result adapters

\* Completion(name, needs_dot, like_name_length)
Completion(name, needs_dot, like_name_length) ==
    [name |-> name, needs_dot |-> needs_dot, like_name_length |-> like_name_length]

\* Definition(definition): the wrapped target; module_path, read from the
\* root of the target's parent chain, is not kept
Definition(definition) == [definition |-> definition]

\* bool(value) of what `not dot and path` leaves: False or the path text
Truthy(value) == value.type = "str" /\ value.str # <<>>

\* Completion.complete: the text to insert
CompletionComplete(c) ==
    (IF Truthy(c.needs_dot) THEN <<".">> ELSE <<>>)
        \o SubSeq(LastSegment(c.name), c.like_name_length + 1,
                  Len(LastSegment(c.name)))

\* a variant that adapts every item of the list, duplicates included
DefinitionsOfList(items) ==
    SeqToBag([i \in DOMAIN items |-> Definition(items[i])])

\* [Definition(d) for d in set(items)]
DefinitionsOfSet(items) == SetToBag({Definition(d) : d \in Range(items)})

-----------------------------------------------------------------------------
\* complete

\* a variant that asks for the dot whenever none was typed
NeedsDotIgnoringPath(dot, path) ==
    IF dot = <<>> THEN [type |-> "str", str |-> <<".">>]
    ELSE [type |-> "bool", str |-> <<>>]

\* not dot and path
NeedsDot(dot, path) ==
    IF dot = <<>> THEN [type |-> "str", str |-> path]
    ELSE [type |-> "bool", str |-> <<>>]

\* a variant that tests the end of the name
NameEndsWithLike(c, like) ==
    LET name == Lower(LastSegment(c))
    IN  /\ Len(like) <= Len(name)
        /\ SubSeq(name, Len(name) - Len(like) + 1, Len(name)) = Lower(like)

\* c.names[-1].lower().startswith(like.lower())
NameStartsWithLike(c, like) == StartsWith(Lower(LastSegment(c)), Lower(like))

\* for s in scopes: if not isinstance(s, evaluate.Function): += s.get_defined_names()
NamesOfScopes(scopes) ==
    Concat([i \in DOMAIN scopes |->
               IF Kind(scopes[i]) # "Function"
               THEN get_defined_names(scopes[i]) ELSE <<>>])

\* [Completion(c, needs_dot, len(like)) for c in set(completions)]
CompletionsOfSet(items, needs_dot, like_name_length) ==
    SetToBag({Completion(c, needs_dot, like_name_length) : c \in Range(items)})

complete(ev, text, mod) ==
    LET pr == _get_completion_parts(text)
        path == pr[1]
        dot == pr[2]
        like == pr[3]
        r == _prepare_goto(ev, mod, path, TRUE)
        g == get_names_for_scope(r.ev, mod)
        completions == IF r.raised = "NotFoundError"
                       THEN Concat(g.name_lists)
                       ELSE NamesOfScopes(r.scopes)
        ev1 == IF r.raised = "NotFoundError" THEN g.ev ELSE r.ev
        Keep(c) == NameStartsWithLike(c, like)
        kept == SelectSeq(completions, Keep)
        needs_dot == NeedsDot(dot, path)
    IN  [outcome |-> "returned",
         result |-> CompletionsOfSet(kept, needs_dot, Len(like)),
         ev |-> _clear_caches(ev1),
         parts |-> pr,
         resolver |-> r.how,
         pool |-> completions]


-----------------------------------------------------------------------------
\* goto

\* the import is "virtual": isinstance(par, parsing.Import) and not par.start_pos[0]
IsVirtual(n) == Kind(n.parent) = "Import" /\ StartLine(n.parent) = 0

Ok(names) == [raised |-> "", names |-> names]

Raised(error) == [raised |-> error, names |-> <<>>]

\* x + y for two results of the flattening, the first error winning
Extend(x, y) ==
    IF x.raised # "" THEN x
    ELSE IF y.raised # "" THEN y
    ELSE Ok(x.names \o y.names)

RECURSIVE remove_unreal_imports(_, _, _, _)
RECURSIVE RemoveUnrealNames(_, _, _, _, _)
RECURSIVE FollowScopes(_, _, _, _, _, _, _)

\* for scope in imports.ImportPath(par).follow(): ... (lines 296-304), from
\* the j-th scope on; call names this run of the loop
FollowScopes(n, scopes, j, module_count, depth, call, name_per_call) ==
    IF j > Len(scopes) THEN Ok(<<>>)
    ELSE IF Kind(scopes[j]) = "Import"
    THEN Extend(remove_unreal_imports(get_defined_names(scopes[j]), depth + 1,
                                      call \o <<j>>, name_per_call),
                FollowScopes(n, scopes, j + 1, module_count, depth, call,
                             name_per_call))
    ELSE IF Kind(scopes[j]) = "Module" /\ module_count = 0
    THEN Extend(Ok(<<get_module_name(scopes[j], n.names, name_per_call, call)>>),
                FollowScopes(n, scopes, j + 1, module_count + 1, depth, call,
                             name_per_call))
    ELSE FollowScopes(n, scopes, j + 1, module_count, depth, call, name_per_call)

\* for n in names: ... (lines 290-306), from the i-th name on
RemoveUnrealNames(names, i, depth, call, name_per_call) ==
    IF i > Len(names) THEN Ok(<<>>)
    ELSE Extend(IF IsVirtual(names[i])
                THEN FollowScopes(names[i], follow(names[i].parent), 1, 0, depth,
                                  call \o <<i>>, name_per_call)
                ELSE Ok(<<names[i]>>),
                RemoveUnrealNames(names, i + 1, depth, call, name_per_call))

\* depth counts the nested calls; the interpreter raises past its limit
remove_unreal_imports(names, depth, call, name_per_call) ==
    IF depth > RecursionLimit THEN Raised("RecursionError")
    ELSE RemoveUnrealNames(names, 1, depth, call, name_per_call)

\* for s in scopes: if isinstance(s, imports.ImportPath): s = s.follow()[0]
RECURSIVE FirstTargets(_)
FirstTargets(scopes) ==
    IF scopes = <<>> THEN Ok(<<>>)
    ELSE Extend(IF Kind(Head(scopes)) = "ImportPath"
                THEN IF follow(Head(scopes)) = <<>> THEN Raised("IndexError")
                     ELSE Ok(<<follow(Head(scopes))[1]>>)
                ELSE Ok(<<Head(scopes)>>),
                FirstTargets(Tail(scopes)))

\* the branch without a dot (lines 276-283)
GotoBare(ev, scopes) ==
    IF Len(ev.statement_path) >= 2 THEN Ok(<<ev.statement_path[2]>>)
    ELSE FirstTargets(scopes)

\* the branch with a dot (lines 285-313)
GotoDotted(scopes, search_name, name_per_call) ==
    LET names == Concat([i \in DOMAIN scopes |-> get_defined_names(scopes[i])])
        flat == remove_unreal_imports(names, 1, <<>>, name_per_call)
        Hit(n) == LastSegment(n) = search_name
    IN  IF flat.raised # "" THEN flat ELSE Ok(SelectSeq(flat.names, Hit))

goto(ev, text, mod) ==
    LET pr == _get_completion_parts(text)
        dot == pr[2]
        goto_path == IF dot = <<>> THEN pr[3] ELSE pr[1]
        search_name == pr[3]
        r == _prepare_goto(ev, mod, goto_path, FALSE)
        d == IF dot = <<>> THEN GotoBare(r.ev, r.scopes)
             ELSE GotoDotted(r.scopes, search_name, mod.name_per_call)
    IN  IF r.raised # ""
        THEN [outcome |-> r.raised, result |-> EmptyBag, ev |-> r.ev,
              parts |-> pr, resolver |-> r.how, pool |-> <<>>]
        ELSE IF d.raised # ""
        THEN [outcome |-> d.raised, result |-> EmptyBag, ev |-> r.ev,
              parts |-> pr, resolver |-> r.how, pool |-> <<>>]
        ELSE [outcome |-> "returned", result |-> DefinitionsOfSet(d.names),
              ev |-> _clear_caches(r.ev),
              parts |-> pr, resolver |-> r.how, pool |-> <<>>]

-----------------------------------------------------------------------------
\* get_definitions

NoParts == <<<<>>, <<>>, <<>>>>

get_definitions(ev, text, mod) ==
    LET r == _prepare_goto(ev, mod, text, FALSE)
    IN  IF r.raised # ""
        THEN [outcome |-> r.raised, result |-> EmptyBag, ev |-> r.ev,
              parts |-> NoParts, resolver |-> r.how, pool |-> <<>>]
        ELSE [outcome |-> "returned", result |-> DefinitionsOfSet(r.scopes),
              ev |-> _clear_caches(r.ev),
              parts |-> NoParts, resolver |-> r.how, pool |-> <<>>]


-----------------------------------------------------------------------------
\* The requests: the text at the cursor and the collaborators' answers

\* f.get_path_until_cursor() / f.get_path_under_cursor()
Paths ==
    {<<>>, <<"a">>, <<"b">>, <<"a", ".">>, <<"a", ".", "a">>, <<"a", ".", "A">>,
     <<"a", ".", "b">>, <<"a", "(">>, <<"a", "\n", ".", "a">>, <<"(", "\n", "a">>,
     <<"a", "\n">>}

\* what evaluate.follow_statement may resolve a statement to
ScopeAnswers ==
    {<<>>, <<"m_use">>, <<"m_cyc">>, <<"f_fn", "c_cls">>, <<"c_cls", "c_cls">>}

\* the statements it follows on the way
HopAnswers == {<<>>, <<"s_b">>}

\* what evaluate.get_names_for_scope yields along the scope chain
ScopeNameAnswers == {<<>>, <<<<n_ab, v_a1>>, <<n_Ab, n_b, n_ab>>>>}

Module(user_stmt, statements, scopes, hops, scope_names, name_per_call) ==
    [user_stmt |-> user_stmt, statements |-> statements, scopes |-> scopes,
     hops |-> hops, scope_names |-> scope_names, name_per_call |-> name_per_call]

\* the answers a request for goto_path can meet: f.parser.user_stmt is an
\* import, or it is none or a plain statement and the text parses to no
\* statement or to one; an answer the request never asks for is left empty
\* (name_per_call is asked for by the dotted goto alone), and an empty text
\* parses to no statement
Modules(goto_path, name_answers, call_answers) ==
    {Module(u, <<>>, <<>>, <<>>, <<>>, FALSE) : u \in {"i_ok", "i_none"}}
    \cup {Module(u, <<>>, <<>>, <<>>, n, FALSE) :
            u \in {"None", "s_user"}, n \in name_answers}
    \cup {Module(u, <<"stmt">>, sc, h, <<>>, c) :
            u \in {x \in {"None", "s_user"} : goto_path # <<>>},
            sc \in ScopeAnswers, h \in HopAnswers, c \in call_answers}

-----------------------------------------------------------------------------
\* The process: one action per public operation

Evaluator == [statement_path |-> statement_path, memo |-> memo, cleared |-> FALSE]

Init ==
    /\ statement_path = <<>>
    /\ memo = {}
    /\ op = "none"
    /\ arg = <<>>
    /\ module = Module("None", <<>>, <<>>, <<>>, <<>>, FALSE)
    /\ parts = NoParts
    /\ resolver = "none"
    /\ pool = <<>>
    /\ outcome = "none"
    /\ result = EmptyBag
    /\ cleared = FALSE
    /\ fresh = [outcome |-> "none", result |-> EmptyBag]

\* the state a call leaves behind
Leave(name, text, mod, call, first) ==
    /\ Len(call.ev.statement_path) <= MaxPath
    /\ statement_path' = call.ev.statement_path
    /\ memo' = call.ev.memo
    /\ cleared' = call.ev.cleared
    /\ op' = name
    /\ arg' = text
    /\ module' = mod
    /\ parts' = call.parts
    /\ resolver' = call.resolver
    /\ pool' = call.pool
    /\ outcome' = call.outcome
    /\ result' = call.result
    /\ fresh' = [outcome |-> first.outcome, result |-> first.result]

Complete ==
    \E text \in Paths :
        \E mod \in Modules(_get_completion_parts(text)[1], ScopeNameAnswers, {FALSE}) :
            Leave("complete", text, mod, complete(Evaluator, text, mod),
                  complete(FreshEvaluator, text, mod))

Goto ==
    \E text \in Paths :
        LET pr == _get_completion_parts(text)
        IN  \E mod \in Modules(IF pr[2] = <<>> THEN pr[3] ELSE pr[1], {<<>>},
                            IF pr[2] = <<>> THEN {FALSE} ELSE BOOLEAN) :
                Leave("goto", text, mod, goto(Evaluator, text, mod),
                      goto(FreshEvaluator, text, mod))

GetDefinitions ==
    \E text \in Paths :
        \E mod \in Modules(text, {<<>>}, {FALSE}) :
            Leave("get_definitions", text, mod, get_definitions(Evaluator, text, mod),
                  get_definitions(FreshEvaluator, text, mod))

Next == Complete \/ Goto \/ GetDefinitions

Spec == Init /\ [][Next]_vars

-----------------------------------------------------------------------------
\* The splitter on its own: every text up to MaxLen

InitParts ==
    /\ statement_path = <<>>
    /\ memo = {}
    /\ op = "none"
    /\ arg \in Strings(MaxLen)
    /\ module = Module("None", <<>>, <<>>, <<>>, <<>>, FALSE)
    /\ parts = NoParts
    /\ resolver = "none"
    /\ pool = <<>>
    /\ outcome = "none"
    /\ result = EmptyBag
    /\ cleared = FALSE
    /\ fresh = [outcome |-> "none", result |-> EmptyBag]

Split ==
    /\ op = "none"
    /\ op' = "_get_completion_parts"
    /\ parts' = _get_completion_parts(arg)
    /\ outcome' = "returned"
    /\ UNCHANGED <<statement_path, memo, arg, module, resolver, pool, result,
                   cleared, fresh>>

NextParts == Split

SpecParts == InitParts /\ [][NextParts]_vars

-----------------------------------------------------------------------------
\* Properties

Operations == {"complete", "goto", "get_definitions"}

Returned == op \in Operations /\ outcome = "returned"

\* the path the last goto or complete handed to the resolver had a dot typed
Dotted == parts[2] # <<>>

\* C1: whichever way complete, goto or get_definitions is left, clear_caches
\* has run after the last use of the evaluator and the evaluator's state is
\* the initial one.
C1_CacheClearedOnEveryExit ==
    op \in Operations => cleared /\ statement_path = <<>> /\ memo = {}

\* C2: complete, goto and get_definitions always return a list; no exception
\* passes the boundary, whatever the collaborators answer.
C2_OperationsAreTotal == op \in Operations => outcome = "returned"

\* C3: a call ends the way, and returns what, the same call with the same
\* collaborator answers returns as the first call of a fresh process.
C3_NoLeakBetweenRequests ==
    op \in Operations => outcome = fresh.outcome /\ result = fresh.result

\* C4: every Completion of complete has a true needs_dot exactly when the
\* splitter reported no dot and a non-empty base path, and the text it
\* inserts starts with a dot exactly then; "a." gives false, "a(" gives true
\* and the bare "a" gives false.
C4_NeedsDot ==
    op = "complete" =>
        \A c \in BagToSet(result) :
            /\ Truthy(c.needs_dot) <=> (parts[2] = <<>> /\ parts[1] # <<>>)
            /\ (CompletionComplete(c) # <<>> /\ Head(CompletionComplete(c)) = ".")
                   <=> (parts[2] = <<>> /\ parts[1] # <<>>)
            /\ arg = <<"a", ".">> => ~Truthy(c.needs_dot)
            /\ arg = <<"a", "(">> => Truthy(c.needs_dot)
            /\ arg = <<"a">> => ~Truthy(c.needs_dot)

C4_Witness ==
    /\ op = "complete"
    /\ arg = <<"a", "(">>
    /\ \E c \in BagToSet(result) : Truthy(c.needs_dot) /\ Head(CompletionComplete(c)) = "."

\* C5: on the resolved branch and on the fallback branch alike, the last
\* segment of every returned Completion, lowercased, starts with the
\* lowercased partial identifier of the splitter.
C5_PrefixFilter ==
    op = "complete" =>
        \A c \in BagToSet(result) :
            /\ Len(parts[3]) <= Len(LastSegment(c.name))
            /\ \A i \in 1..Len(parts[3]) :
                   LowerChar(LastSegment(c.name)[i]) = LowerChar(parts[3][i])

C5_Witness ==
    /\ op = "complete"
    /\ resolver = "NotFound"
    /\ parts[3] = <<"b">>
    /\ result # EmptyBag
    /\ \E i \in DOMAIN pool : LastSegment(pool[i]) = <<"a", "b">>

\* an import standing for one line of a multi-line import
IsVirtualImport(e) == Kind(e) = "Import" /\ StartLine(e) = 0

\* C6: no public operation returns a virtual binding: no name wrapped by
\* complete or by the dotted goto has a virtual import as its parent, and no
\* entity wrapped by the bare goto or by get_definitions is a virtual import.
C6_NoVirtualBindingReturned ==
    /\ (Returned /\ op = "complete") =>
           \A c \in BagToSet(result) : ~IsVirtual(c.name)
    /\ (Returned /\ op = "goto" /\ Dotted) =>
           \A d \in BagToSet(result) : ~IsVirtual(d.definition)
    /\ (Returned /\ (op = "get_definitions" \/ (op = "goto" /\ ~Dotted))) =>
           \A d \in BagToSet(result) : ~IsVirtualImport(d.definition)

\* C7: the flattening of virtual imports in goto ends with a result for every
\* import graph, one that leads back to a binding being expanded included.
C7_FlatteningTerminates == op = "goto" => outcome # "RecursionError"

\* the dotted goto for the name `a` that the module m_use imports twice
\* through a multi-line import
GotoTwiceListedName ==
    /\ Returned
    /\ op = "goto"
    /\ arg = <<"a", ".", "a">>
    /\ module.scopes = <<"m_use">>

C8_OnePerVirtualBinding ==
    (GotoTwiceListedName /\ module.name_per_call) =>
        /\ BagCardinality(result) = 2
        /\ \A d \in BagToSet(result) :
               /\ d.definition.parent = "m_pkg"
               /\ d.definition.names = <<<<"a">>>>

NoStatementForMultiLine == module.user_stmt = "None" /\ IsMultiLine(parts[1])

NothingParsed ==
    /\ ~NoStatementForMultiLine
    /\ Kind(module.user_stmt) # "Import"
    /\ module.statements = <<>>

\* C9: in both impossible cases the resolver signals NotFound and complete
\* takes its pool from the names of the scope chain.
C9_NotFoundWheneverImpossible ==
    (op = "complete" /\ (NoStatementForMultiLine \/ NothingParsed)) =>
        resolver = "NotFound" /\ pool = Concat(module.scope_names)

\* the length of the splitter's input and of the partial identifier
InputLen == Len(arg)

PartialLen == Len(parts[3])

\* the splitter's parts are the input cut before its last run of word
\* characters, the dot before that run being the second part
Decomposes ==
    /\ parts[1] \o parts[2] \o parts[3] = arg
    /\ PartialLen <= InputLen
    /\ parts[3] = SubSeq(arg, InputLen - PartialLen + 1, InputLen)
    /\ \A i \in DOMAIN parts[3] : parts[3][i] \in WordChars
    /\ InputLen > PartialLen => arg[InputLen - PartialLen] \notin WordChars
    /\ parts[2] = IF InputLen > PartialLen /\ arg[InputLen - PartialLen] = "."
                  THEN <<".">> ELSE <<>>
    /\ parts[1] = SubSeq(arg, 1, InputLen - PartialLen - Len(parts[2]))

\* C10: for every input the splitter's three parts put together are the
\* input, the partial identifier is the longest run of word characters ending
\* the input, the dot is there exactly when a dot precedes that run, and the
\* leading path is everything before.
C10_SplitterDecomposes == op = "_get_completion_parts" => Decomposes

\* C10, the part of it the code keeps: the same for every input that does
\* not end in a newline.
C10_DecomposesWithoutFinalNewline ==
    (op = "_get_completion_parts" /\ (arg = <<>> \/ arg[InputLen] # "\n")) =>
        Decomposes

\* C10, where the code departs: an input ending in a newline loses it.
C10_FinalNewlineDropped ==
    (op = "_get_completion_parts" /\ arg # <<>> /\ arg[InputLen] = "\n") =>
        parts[1] \o parts[2] \o parts[3] = SubSeq(arg, 1, InputLen - 1)

=============================================================================
